---- MODULE Spec2Model ----
(***************************************************************************)
(* Model of the UtilityAPI integration: the cumulative statistics writer   *)
(* (statistics_helper.py), the refresh cycle and the meter discovery of    *)
(* the coordinator (coordinator.py).                                       *)
(*                                                                         *)
(* Conventions.                                                            *)
(*  - An optional value is a tuple: <<>> is None, <<v>> is the value v.    *)
(*  - Usage values are integers.  Costs are exact rationals <<n, d>> with  *)
(*    d > 0 in lowest terms (the code's floats without rounding).          *)
(*  - A calendar date is an integer day number; an hour start in UTC is    *)
(*    the integer 24 * date + hour.                                        *)
(***************************************************************************)
EXTENDS Integers, Sequences, FiniteSets, TLC

VARIABLES
    recorder_ok,  \* statistics_helper.py:9-17   the recorder functions were imported
    stats,        \* the recorder's external statistics, per meter and metric
    wr,           \* one activation record of async_write_hourly_usage_cost per caller
    lastCall,     \* history: the arguments of the latest direct call of the writer
    prevCall,     \* history: the arguments of the direct call before it
    nWrites,      \* history: the number of direct calls made
    meter_ids,    \* coordinator.py:26   self._meter_ids, the tracked list
    feed,         \* the provider: per meter, the interval payload and the bill payload it serves
    cyc,          \* the activation record of _async_update_data
    disc,         \* the activation record of refresh_meters
    refresh_requested,  \* coordinator.py:215   a refresh asked for and not yet started
    prevCycle,    \* history: what the cycle before the current one received and left
    budget,       \* history: cycles started, discoveries started, failures injected
    imp,          \* __init__.py:54   the activation record of _handle_import
    client        \* api.py:29-31   the network client: semaphore, auth mode, calls of _get

directVars == <<lastCall, prevCall, nWrites, imp, client>>
cycleVars == <<meter_ids, feed, cyc, disc, refresh_requested, prevCycle, budget>>
vars == <<recorder_ok, stats, wr, lastCall, prevCall, nWrites,
          meter_ids, feed, cyc, disc, refresh_requested, prevCycle, budget,
          imp, client>>

\* ------------------------------------------------------------------ values

None == <<>>
Some(v) == <<v>>
IsNone(o) == o = <<>>
Val(o) == o[1]

RECURSIVE Gcd(_, _)
Gcd(a, b) == IF b = 0 THEN a ELSE Gcd(b, a % b)

Abs(x) == IF x < 0 THEN -x ELSE x

\* The rational n/d (d # 0) in lowest terms with a positive denominator.
Rat(n, d) ==
    LET g == Gcd(Abs(n), Abs(d))
        s == IF d < 0 THEN -1 ELSE 1
    IN  <<(s * n) \div g, (s * d) \div g>>

RInt(n) == <<n, 1>>
RZero == RInt(0)
RAdd(x, y) == Rat(x[1] * y[2] + y[1] * x[2], x[2] * y[2])
RMul(x, y) == Rat(x[1] * y[1], x[2] * y[2])
RDiv(x, y) == Rat(x[1] * y[2], x[2] * y[1])

InRange(list) == {list[i] : i \in DOMAIN list}

Max(S) == CHOOSE x \in S : \A y \in S : y <= x

\* ------------------------------------------------------------------ bounds

MaxBatch == 2        \* hours of one direct call of the writer
MaxWrites == 2       \* direct calls of the writer
MaxCycles == 2       \* refresh cycles
MaxFailures == 2     \* API errors and recorder failures the environment injects
MaxDiscoveries == 1  \* calls of refresh_meters
MaxReadings == 2     \* readings of an interval payload of the pipeline
MaxBills == 2        \* bills of a bill payload of the pipeline
MaxDays == 2         \* days of the range of a bulk import
MaxCallers == 6      \* tasks that call the network client

\* ------------------------------------------------------------------ time

\* A start value as the provider sends it.
Dt(date, hour, minute, off) ==
    [kind |-> "datetime", date |-> date, hour |-> hour, minute |-> minute, off |-> off]
BareDate(date) ==
    [kind |-> "date", date |-> date, hour |-> 0, minute |-> 0, off |-> 0]
NoStart == [kind |-> "none", date |-> 0, hour |-> 0, minute |-> 0, off |-> 0]
Garbage == [kind |-> "garbage", date |-> 0, hour |-> 0, minute |-> 0, off |-> 0]

\* _parse_hour_start: the UTC hour start of a value, minutes truncated; a bare
\* date is its midnight; None when the code raises (neither parser accepts the
\* value, so dt is None and d.year fails).
parse_hour_start(value) ==
    CASE value.kind = "datetime" -> Some(24 * value.date + value.hour - value.off)
      [] value.kind = "date" -> Some(24 * value.date)
      [] OTHER -> None

\* ------------------------------------------------------------------ statistics writer

Meters == {"A", "B", "C"}
Callers == {"direct", "cycle"}

\* An hourly record as the writer reads it: h.get("start"), h.get("usage"),
\* h.get("cost").
Hour(start, usage, cost) == [start |-> start, usage |-> usage, cost |-> cost]

EmptySeries == <<>>
EmptyStats == [usage |-> EmptySeries, cost |-> EmptySeries]

\* async_get_last_statistics(hass, 1, ...): the row of a series with the latest
\* start, and the code's "last_usage_sum = 0.0" when there is none.
last_usage_sum(st) ==
    IF DOMAIN st.usage = {} THEN 0 ELSE st.usage[Max(DOMAIN st.usage)]
last_cost_sum(st) ==
    IF DOMAIN st.cost = {} THEN RZero ELSE st.cost[Max(DOMAIN st.cost)]

\* Some start of the batch makes _parse_hour_start raise.
ParseRaises(hours) ==
    \E i \in DOMAIN hours : IsNone(parse_hour_start(hours[i].start))

SortKey(h) == Val(parse_hour_start(h.start))

\* sorted(hours, key=...): Python's sort is stable.
RECURSIVE InsertSorted(_, _)
InsertSorted(h, s) ==
    IF s = <<>> THEN <<h>>
    ELSE IF SortKey(s[Len(s)]) <= SortKey(h) THEN Append(s, h)
    ELSE Append(InsertSorted(h, SubSeq(s, 1, Len(s) - 1)), s[Len(s)])

RECURSIVE ordered(_)
ordered(hours) ==
    IF hours = <<>> THEN <<>>
    ELSE InsertSorted(hours[Len(hours)], ordered(SubSeq(hours, 1, Len(hours) - 1)))

\* u = h.get("usage") or 0 ; c = h.get("cost") or 0
UsageOr0(h) == IF IsNone(h.usage) THEN 0 ELSE Val(h.usage)
CostOr0(h) == IF IsNone(h.cost) THEN RZero ELSE Val(h.cost)

\* The loop over the ordered hours: one usage row per hour.
RECURSIVE usage_rows(_, _)
usage_rows(ord, running_usage) ==
    IF ord = <<>> THEN <<>>
    ELSE LET r == running_usage + UsageOr0(Head(ord))
         IN  <<[start |-> SortKey(Head(ord)), sum |-> r]>> \o usage_rows(Tail(ord), r)

CostRowAlways(h, running_cost) == <<[start |-> SortKey(h), sum |-> running_cost]>>

\* The cost rows appended for an hour of the loop.
CostRowFor(h, running_cost) ==
    IF IsNone(h.cost) THEN <<>> ELSE <<[start |-> SortKey(h), sum |-> running_cost]>>

RECURSIVE cost_rows(_, _)
cost_rows(ord, running_cost) ==
    IF ord = <<>> THEN <<>>
    ELSE LET r == RAdd(running_cost, CostOr0(Head(ord)))
         IN  CostRowFor(Head(ord), r) \o cost_rows(Tail(ord), r)

\* async_add_external_statistics: rows are upserted keyed by start; of two rows
\* of one call with the same start the later one is kept.
Upsert(series, rows) ==
    LET starts == {rows[i].start : i \in DOMAIN rows}
    IN  [t \in DOMAIN series \cup starts |->
            IF t \in starts
            THEN rows[Max({i \in DOMAIN rows : rows[i].start = t})].sum
            ELSE series[t]]

IdleWrite ==
    [pc |-> "idle", meter |-> "A", hours |-> <<>>, last_usage |-> 0, last_cost |-> RZero,
     before |-> EmptyStats, usage_written |-> <<>>, cost_written |-> <<>>]

BeginWriteAlways(m, hours) ==
    [pc |-> "read", meter |-> m, hours |-> hours,
     last_usage |-> 0, last_cost |-> RZero, before |-> stats[m],
     usage_written |-> <<>>, cost_written |-> <<>>]

\* The call of async_write_hourly_usage_cost up to its first await; with the
\* recorder functions missing it returns at once.
BeginWrite(m, hours) ==
    [pc |-> IF recorder_ok THEN "read" ELSE "done", meter |-> m, hours |-> hours,
     last_usage |-> 0, last_cost |-> RZero, before |-> stats[m],
     usage_written |-> <<>>, cost_written |-> <<>>]

\* await async_get_last_statistics, then the sort, which may raise.
WriteReadLast(c) ==
    /\ wr[c].pc = "read"
    /\ LET w == wr[c]
           next == IF ParseRaises(w.hours) THEN "raised"
                   ELSE IF w.hours = <<>> THEN "done" ELSE "usage"
       IN  wr' = [wr EXCEPT ![c] = [w EXCEPT !.pc = next,
                                             !.last_usage = last_usage_sum(stats[w.meter]),
                                             !.last_cost = last_cost_sum(stats[w.meter])]]
    /\ UNCHANGED stats

\* if usage_rows: await async_add_external_statistics(hass, usage_meta, usage_rows)
WriteAppendUsage(c) ==
    /\ wr[c].pc = "usage"
    /\ LET w == wr[c]
           urows == usage_rows(ordered(w.hours), w.last_usage)
           crows == cost_rows(ordered(w.hours), w.last_cost)
       IN  /\ stats' = [stats EXCEPT ![w.meter].usage = Upsert(@, urows)]
           /\ wr' = [wr EXCEPT ![c] = [w EXCEPT !.pc = IF crows = <<>> THEN "done" ELSE "cost",
                                                 !.usage_written = urows]]

\* if cost_rows: await async_add_external_statistics(hass, cost_meta, cost_rows)
WriteAppendCost(c) ==
    /\ wr[c].pc = "cost"
    /\ LET w == wr[c]
           crows == cost_rows(ordered(w.hours), w.last_cost)
       IN  /\ stats' = [stats EXCEPT ![w.meter].cost = Upsert(@, crows)]
           /\ wr' = [wr EXCEPT ![c] = [w EXCEPT !.pc = "done", !.cost_written = crows]]

\* ------------------------------------------------------------------ interval normalizer

\* now = dt_util.now(), as a day number; yesterday_date is the day before.
NowDate == 1
yesterday_date == NowDate - 1

DateKey(d) == [kind |-> "date", date |-> d]
TextKey == [kind |-> "text", date |-> 0]

day_key_utc(start) ==
    CASE start.kind = "datetime" ->
             DateKey((24 * start.date + start.hour - start.off) \div 24)
      [] start.kind = "date" -> DateKey(start.date)
      [] start.kind = "none" -> DateKey(yesterday_date)
      [] OTHER -> TextKey

\* s = r.get("start") or "" ; day_key = str(s)[:10] if s else str(yesterday_date)
day_key(start) ==
    CASE start.kind \in {"datetime", "date"} -> DateKey(start.date)
      [] start.kind = "none" -> DateKey(yesterday_date)
      [] OTHER -> TextKey

\* A datapoint and a reading of the payload.  value and cost are None when the
\* field is missing or float() rejects it; unit is None when it is missing.
Datapoint(value, unit, cost) == [value |-> value, unit |-> unit, cost |-> cost]
Reading(start, dps, cost) == [start |-> start, datapoints |-> dps, cost |-> cost]

\* usage += float(v), a rejected value adding nothing
RECURSIVE reading_usage(_)
reading_usage(dps) ==
    IF dps = <<>> THEN 0
    ELSE (IF IsNone(Head(dps).value) THEN 0 ELSE Val(Head(dps).value))
         + reading_usage(Tail(dps))

\* The costs found at datapoint and reading level, in the order they are added.
found_costs(r) ==
    LET dpc == SelectSeq([i \in DOMAIN r.datapoints |-> r.datapoints[i].cost],
                         LAMBDA c : ~IsNone(c))
    IN  dpc \o (IF IsNone(r.cost) THEN <<>> ELSE <<r.cost>>)

RECURSIVE SumCosts(_)
SumCosts(cs) == IF cs = <<>> THEN RZero ELSE RAdd(Val(Head(cs)), SumCosts(Tail(cs)))

reading_cost_or_zero(r) == Some(SumCosts(found_costs(r)))

\* "cost": cost if cost_found else None
reading_cost(r) == IF found_costs(r) = <<>> THEN None ELSE Some(SumCosts(found_costs(r)))

\* unit = unit or dp.get("unit"), over the datapoints of a reading
RECURSIVE unit_after(_, _)
unit_after(unit, dps) ==
    IF dps = <<>> THEN unit
    ELSE unit_after(IF IsNone(unit) THEN Head(dps).unit ELSE unit, Tail(dps))

Entry(start, usage, cost, unit) ==
    [start |-> start, usage |-> usage, cost |-> cost, unit |-> unit]

\* by_day.setdefault(day_key, []).append(entry), by_day in insertion order.
by_day_append(by_day, key, entry) ==
    IF \E i \in DOMAIN by_day : by_day[i].day = key
    THEN [i \in DOMAIN by_day |->
            IF by_day[i].day = key
            THEN [by_day[i] EXCEPT !.hours = Append(@, entry)] ELSE by_day[i]]
    ELSE Append(by_day, [day |-> key, hours |-> <<entry>>])

NormStart ==
    [by_day |-> <<>>, hours |-> <<>>, total_val |-> 0, total_cost_reported |-> RZero,
     unit |-> None]

\* One reading of the payload: its entry, its day bucket, yesterday's tally.
norm_reading(acc, r) ==
    LET unit == unit_after(acc.unit, r.datapoints)
        cost == reading_cost(r)
        entry == Entry(r.start, Some(reading_usage(r.datapoints)), cost, unit)
        key == day_key(r.start)
        yesterday == key = DateKey(yesterday_date)
    IN  [by_day |-> by_day_append(acc.by_day, key, entry),
         hours |-> IF yesterday THEN Append(acc.hours, entry) ELSE acc.hours,
         total_val |-> IF yesterday THEN acc.total_val + reading_usage(r.datapoints)
                       ELSE acc.total_val,
         total_cost_reported |->
             IF yesterday /\ ~IsNone(cost) THEN RAdd(acc.total_cost_reported, Val(cost))
             ELSE acc.total_cost_reported,
         unit |-> unit]

RECURSIVE normalize(_)
normalize(readings) ==
    IF readings = <<>> THEN NormStart
    ELSE norm_reading(normalize(SubSeq(readings, 1, Len(readings) - 1)),
                      readings[Len(readings)])

payload_readings_any(payload) == payload.readings

\* arr = intervals_win["intervals"] when the payload is a dict holding a list.
payload_readings(payload) == IF payload.shape = "ok" THEN payload.readings ELSE <<>>

\* daily.update({...}): a total of 0 is reported as None.
daily_of(n) ==
    [date |-> yesterday_date,
     usage |-> IF n.total_val = 0 THEN None ELSE Some(n.total_val),
     cost |-> IF n.total_cost_reported = RZero THEN None ELSE Some(n.total_cost_reported),
     unit |-> n.unit, currency |-> Some("USD")]

\* daily after the interval fetch raised UtilityAPIError.
daily_unknown ==
    [date |-> yesterday_date, usage |-> None, cost |-> None, unit |-> None,
     currency |-> None]

\* ------------------------------------------------------------------ bill apportionment

\* A bill: its period bounds (period.start or start, None when missing or not a
\* date) and the three amount fields.
Bill(p_start, p_end, total, amount_due, amount) ==
    [start |-> p_start, end |-> p_end, total |-> total, amount_due |-> amount_due,
     amount |-> amount]

Truthy(o) == ~IsNone(o) /\ Val(o) # RZero

\* total = b.get("total") or b.get("amount_due") or b.get("amount")
bill_total(b) ==
    IF Truthy(b.total) THEN b.total
    ELSE IF Truthy(b.amount_due) THEN b.amount_due
    ELSE b.amount

\* The body of the loop over bill_list for one bill: the estimate when the bill
\* has an amount float() accepts and its period covers yesterday.
bill_estimate(b) ==
    IF IsNone(bill_total(b)) \/ IsNone(b.start) \/ IsNone(b.end) THEN None
    ELSE LET span == Val(b.end) - Val(b.start)
             days == IF span = 0 THEN 1 ELSE span
         IN  IF Val(b.start) <= yesterday_date /\ yesterday_date < Val(b.end)
             THEN Some(RDiv(Val(bill_total(b)), RInt(days)))
             ELSE None

\* for b in bill_list: ... est_cost = total_f / days ; break
RECURSIVE est_cost(_)
est_cost(bill_list) ==
    IF bill_list = <<>> THEN None
    ELSE IF ~IsNone(bill_estimate(Head(bill_list))) THEN bill_estimate(Head(bill_list))
    ELSE est_cost(Tail(bill_list))

\* bill_list = bills["bills"], else bills["data"], else [].
bill_list_of(bills) == IF bills.shape = "ok" THEN bills.bills ELSE <<>>

RECURSIVE sum_usage(_)
sum_usage(hours) ==
    IF hours = <<>> THEN 0 ELSE UsageOr0(Head(hours)) + sum_usage(Tail(hours))

distribute_evenly(hours, est) ==
    [i \in DOMAIN hours |->
        [hours[i] EXCEPT !.cost = Some(RDiv(est, RInt(Max({1, Len(hours)}))))]]

\* h["cost"] = est_cost * (usage / sum_usage), or est_cost / n
distribute(hours, est) ==
    LET total == sum_usage(hours)
        n == IF Len(hours) = 0 THEN 1 ELSE Len(hours)
    IN  [i \in DOMAIN hours |->
            [hours[i] EXCEPT !.cost =
                IF total > 0
                THEN Some(RMul(est, Rat(UsageOr0(hours[i]), total)))
                ELSE Some(RDiv(est, RInt(n)))]]

\* The entries of `hours` are the very entries of yesterday's bucket of the
\* by_day built from the same payload, so the bucket sees their new costs.
by_day_with(by_day, hours) ==
    [i \in DOMAIN by_day |->
        IF by_day[i].day = DateKey(yesterday_date)
        THEN [by_day[i] EXCEPT !.hours = hours] ELSE by_day[i]]

\* ------------------------------------------------------------------ refresh cycle

IdleCycle ==
    [pc |-> "idle", status |-> "none", cause |-> "none", list |-> <<>>, idx |-> 0,
     summary |-> "", daily |-> daily_unknown, hours |-> <<>>,
     by_day |-> None, by_day_of |-> "", fresh |-> FALSE, bucket |-> 0,
     results |-> <<>>, returned |-> None,
     \* history: the stages run, the fetch outcomes, the writes that returned
     trace |-> <<>>, inputs |-> <<>>,
     epoch |-> 0, end_stats |-> <<>>, written |-> <<>>]

NoPrevCycle ==
    [made |-> FALSE, status |-> "none", list |-> <<>>, inputs |-> <<>>, stats |-> <<>>]

cycle_meter_live(list, tracked, idx) ==
    IF idx \in DOMAIN tracked THEN tracked[idx] ELSE list[idx]

\* for meter_id in self._meter_ids: the loop walks the list object it was
\* given when it began, whatever self._meter_ids is bound to later.
cycle_meter(list, tracked, idx) == list[idx]

MeterId == cycle_meter(cyc.list, meter_ids, cyc.idx)

Log(stage) == Append(cyc.trace, <<MeterId, stage>>)
Input(kind, outcome) == Append(cyc.inputs, <<MeterId, kind, outcome>>)

Spend == [budget EXCEPT !.failures = @ + 1]
CanFail == budget.failures < MaxFailures

\* The return of _async_update_data, or the exception that leaves it.
cycle_ends(c, status, cause) ==
    [c EXCEPT !.pc = "idle", !.status = status, !.cause = cause,
              !.returned = IF status = "ok" THEN Some(c.results) ELSE None,
              !.end_stats = stats]

summary_error_contained(c) == [c EXCEPT !.pc = "intervals", !.summary = "error"]

\* except UtilityAPIError as err: raise UpdateFailed(str(err)) from err
on_summary_error(c) == cycle_ends(c, "UpdateFailed", "summary")

\* An exception that is no UtilityAPIError leaves _async_update_data as it is.
on_shape_error(c, stage) == cycle_ends(c, "error", stage)

\* A refresh begins: the scheduled one, or the one a discovery asked for.
CycleStart ==
    /\ cyc.pc = "idle"
    /\ budget.cycles < MaxCycles
    /\ prevCycle' = IF cyc.status = "none" THEN prevCycle
                    ELSE [made |-> TRUE, status |-> cyc.status, list |-> cyc.list,
                          inputs |-> cyc.inputs, stats |-> cyc.end_stats]
    /\ LET c == [IdleCycle EXCEPT !.list = meter_ids, !.idx = 1, !.status = "running",
                                  !.pc = "summary", !.epoch = disc.count]
       IN  cyc' = IF meter_ids = <<>> THEN cycle_ends(c, "ok", "none") ELSE c
    /\ refresh_requested' = FALSE
    /\ budget' = [budget EXCEPT !.cycles = @ + 1]
    /\ UNCHANGED <<recorder_ok, stats, wr, directVars, meter_ids, feed, disc>>

\* summary = await self._client.refresh_meter_summary(meter_id), then the fresh
\* daily and hours of the iteration.  refresh_meter_summary answers from the
\* meter endpoint, or after an error of it from the listing, and raises when the
\* listing fails too.
FetchSummary(outcome) ==
    /\ cyc.pc = "summary"
    /\ outcome = "meter" \/ CanFail
    /\ IF outcome = "error"
       THEN cyc' = on_summary_error([cyc EXCEPT !.trace = Log("FETCH_SUMMARY"),
                                               !.inputs = Input("summary", "error")])
       ELSE cyc' = [cyc EXCEPT !.pc = "intervals", !.summary = outcome,
                               !.daily = daily_unknown, !.hours = <<>>,
                               !.fresh = FALSE, !.bucket = 0,
                               !.trace = Log("FETCH_SUMMARY"),
                               !.inputs = Input("summary", outcome)]
    /\ budget' = IF outcome = "meter" THEN budget ELSE Spend
    /\ UNCHANGED <<recorder_ok, stats, wr, directVars, meter_ids, feed, disc,
                   refresh_requested, prevCycle>>

needs_estimate_always(daily) == TRUE

\* if daily.get("cost") in (None, 0)
needs_estimate(daily) == IsNone(daily.cost) \/ Val(daily.cost) = RZero

after_intervals(daily) == IF needs_estimate(daily) THEN "bills" ELSE "persist"

intervals_error_raised(c) == cycle_ends(c, "UpdateFailed", "intervals")

\* except UtilityAPIError: daily.update({"usage": None, "cost": None})
on_intervals_error(c) ==
    [c EXCEPT !.daily = daily_unknown, !.pc = after_intervals(daily_unknown)]

\* The interval stage: get_intervals over the lookback window and the
\* normalizer, or the handler of UtilityAPIError.
FetchIntervals(outcome) ==
    /\ cyc.pc = "intervals"
    /\ outcome = "ok" \/ CanFail
    /\ LET n == normalize(payload_readings(feed[MeterId].intervals))
       IN  cyc' =
             IF outcome = "error"
             THEN on_intervals_error([cyc EXCEPT !.trace = Log("FETCH_INTERVALS"),
                                               !.inputs = Input("intervals", "error")])
             ELSE IF feed[MeterId].intervals.shape = "bad_element"
             THEN on_shape_error([cyc EXCEPT !.trace = Log("FETCH_INTERVALS"),
                                           !.inputs = Input("intervals", "ok")],
                                 "intervals_shape")
             ELSE [cyc EXCEPT !.daily = daily_of(n), !.hours = n.hours,
                              !.by_day = Some(n.by_day), !.by_day_of = MeterId,
                              !.fresh = TRUE,
                              !.pc = after_intervals(daily_of(n)),
                              !.trace = Log("FETCH_INTERVALS") \o <<<<MeterId, "NORMALIZE">>>>,
                              !.inputs = Input("intervals", "ok")]
    /\ budget' = IF outcome = "ok" THEN budget ELSE Spend
    /\ UNCHANGED <<recorder_ok, stats, wr, directVars, meter_ids, feed, disc,
                   refresh_requested, prevCycle>>

\* The record after the bill list was read: the estimate, when there is one,
\* becomes the daily cost and is spread over yesterday's hours.
with_estimate(c, est) ==
    IF IsNone(est) THEN c
    ELSE LET hours == distribute(c.hours, Val(est))
         IN  [c EXCEPT !.daily.cost = est, !.hours = hours,
                       !.by_day = IF c.fresh THEN Some(by_day_with(Val(c.by_day), hours))
                                  ELSE c.by_day]

bills_error_raised(c) == cycle_ends(c, "UpdateFailed", "bills")

bills_error_skips_persist(c) == [c EXCEPT !.pc = "assemble"]

\* except UtilityAPIError: pass
on_bills_error(c) == [c EXCEPT !.pc = "persist"]

\* The bill stage: get_bills for yesterday and the estimate, or the handler of
\* UtilityAPIError.
FetchBills(outcome) ==
    /\ cyc.pc = "bills"
    /\ outcome = "ok" \/ CanFail
    /\ cyc' =
         IF outcome = "error"
         THEN on_bills_error([cyc EXCEPT !.trace = Log("ESTIMATE_COST"),
                                       !.inputs = Input("bills", "error")])
         ELSE IF feed[MeterId].bills.shape = "bad_element"
         THEN on_shape_error([cyc EXCEPT !.trace = Log("ESTIMATE_COST"),
                                       !.inputs = Input("bills", "ok")], "bills_shape")
         ELSE with_estimate([cyc EXCEPT !.pc = "persist",
                                      !.trace = Log("ESTIMATE_COST"),
                                      !.inputs = Input("bills", "ok")],
                            est_cost(bill_list_of(feed[MeterId].bills)))
    /\ budget' = IF outcome = "ok" THEN budget ELSE Spend
    /\ UNCHANGED <<recorder_ok, stats, wr, directVars, meter_ids, feed, disc,
                   refresh_requested, prevCycle>>

\* The statistics call of the loop over by_day.items() for bucket k.
write_bucket(k) == BeginWrite(MeterId, Val(cyc.by_day)[k].hours)

\* except Exception: pass, around the loop over the day buckets
on_persist_error(c) == [c EXCEPT !.pc = "assemble"]

\* The persist stage begins: by_day is unbound when no interval fetch of this
\* cycle has come back yet (NameError, swallowed); otherwise the first bucket.
PersistBegin ==
    /\ cyc.pc = "persist"
    /\ IF IsNone(cyc.by_day)
       THEN /\ cyc' = on_persist_error([cyc EXCEPT !.trace = Log("PERSIST_STATS")])
            /\ wr' = wr
       ELSE IF Val(cyc.by_day) = <<>>
       THEN /\ cyc' = [cyc EXCEPT !.pc = "assemble", !.trace = Log("PERSIST_STATS")]
            /\ wr' = wr
       ELSE /\ cyc' = [cyc EXCEPT !.pc = "writing", !.bucket = 1,
                                  !.trace = Log("PERSIST_STATS")]
            /\ wr' = [wr EXCEPT !["cycle"] = write_bucket(1)]
    /\ UNCHANGED <<recorder_ok, stats, directVars, meter_ids, feed, disc,
                   refresh_requested, prevCycle, budget>>

\* The write of a bucket returned or raised: the next bucket, or the end of the
\* stage.
PersistReturn ==
    /\ cyc.pc = "writing"
    /\ wr["cycle"].pc \in {"done", "raised"}
    /\ IF wr["cycle"].pc = "raised"
       THEN /\ cyc' = on_persist_error(cyc)
            /\ wr' = [wr EXCEPT !["cycle"].pc = "idle"]
       ELSE IF cyc.bucket < Len(Val(cyc.by_day))
       THEN /\ cyc' = [cyc EXCEPT !.bucket = @ + 1, !.written = Append(@, wr["cycle"])]
            /\ wr' = [wr EXCEPT !["cycle"] = write_bucket(cyc.bucket + 1)]
       ELSE /\ cyc' = [cyc EXCEPT !.pc = "assemble", !.written = Append(@, wr["cycle"])]
            /\ wr' = [wr EXCEPT !["cycle"].pc = "idle"]
    /\ UNCHANGED <<recorder_ok, stats, directVars, meter_ids, feed, disc,
                   refresh_requested, prevCycle, budget>>

\* The awaits of the write the cycle is in.
CycleWriteStep ==
    /\ cyc.pc = "writing"
    /\ \/ WriteReadLast("cycle")
       \/ WriteAppendUsage("cycle")
       \/ WriteAppendCost("cycle")
    /\ UNCHANGED <<recorder_ok, directVars, cycleVars>>

\* A recorder call of the write raises.
CycleWriteFails ==
    /\ cyc.pc = "writing"
    /\ wr["cycle"].pc \in {"read", "usage", "cost"}
    /\ CanFail
    /\ wr' = [wr EXCEPT !["cycle"].pc = "raised"]
    /\ cyc' = [cyc EXCEPT !.inputs = Input("persist", "error")]
    /\ budget' = Spend
    /\ UNCHANGED <<recorder_ok, stats, directVars, meter_ids, feed, disc,
                   refresh_requested, prevCycle>>

\* results[meter_id] = {**summary, "daily": daily, "yesterday_hours": hours}
result_entry(c, m) ==
    [meter |-> m, summary |-> c.summary, daily |-> c.daily, yesterday_hours |-> c.hours]

\* The end of an iteration: the result entry, then the next meter or the return.
Assemble ==
    /\ cyc.pc = "assemble"
    /\ LET c == [cyc EXCEPT !.results = Append(@, result_entry(cyc, MeterId)),
                            !.trace = Log("ASSEMBLE_RESULT")]
       IN  cyc' = IF cyc.idx = Len(cyc.list) THEN cycle_ends(c, "ok", "none")
                  ELSE [c EXCEPT !.idx = @ + 1, !.pc = "summary"]
    /\ UNCHANGED <<recorder_ok, stats, wr, directVars, meter_ids, feed, disc,
                   refresh_requested, prevCycle, budget>>

\* ------------------------------------------------------------------ discovery

\* listings, initial, at_pc and at_idx are history: the listings received, the
\* tracked list of the setup, and where the cycle stood at the last replacement.
IdleDisc ==
    [pc |-> "idle", count |-> 0, listings |-> <<>>, initial |-> <<>>,
     at_pc |-> "idle", at_idx |-> 0]

Listed(id, archived) == [id |-> id, archived |-> archived]

\* [m.id for m in meters if not m.archived]
listed_ids(meters) ==
    LET kept == SelectSeq(meters, LAMBDA m : ~m.archived)
    IN  [i \in DOMAIN kept |-> kept[i].id]

new_tracked_merged(tracked, meters) ==
    tracked \o SelectSeq(listed_ids(meters), LAMBDA id : id \notin InRange(tracked))

\* self._meter_ids = [...]: the attribute is bound to the new list.
new_tracked(tracked, meters) == listed_ids(meters)

\* refresh_meters is called and awaits the listing.
DiscStart ==
    /\ disc.pc = "idle"
    /\ budget.discoveries < MaxDiscoveries
    /\ disc' = [disc EXCEPT !.pc = "listing"]
    /\ budget' = [budget EXCEPT !.discoveries = @ + 1]
    /\ UNCHANGED <<recorder_ok, stats, wr, directVars, meter_ids, feed, cyc,
                   refresh_requested, prevCycle>>

\* The listing comes back: the tracked list is replaced and a refresh is asked
\* for, with no await between the two.
DiscListed(meters) ==
    /\ disc.pc = "listing"
    /\ meter_ids' = new_tracked(meter_ids, meters)
    /\ refresh_requested' = TRUE
    /\ disc' = [disc EXCEPT !.pc = "idle", !.count = @ + 1,
                            !.listings = Append(@, meters),
                            !.at_pc = cyc.pc, !.at_idx = cyc.idx]
    /\ UNCHANGED <<recorder_ok, stats, wr, directVars, feed, cyc, prevCycle, budget>>

\* list_meters raises: refresh_meters ends with the tracked list as it was.
DiscError ==
    /\ disc.pc = "listing"
    /\ CanFail
    /\ disc' = [disc EXCEPT !.pc = "idle"]
    /\ budget' = Spend
    /\ UNCHANGED <<recorder_ok, stats, wr, directVars, meter_ids, feed, cyc,
                   refresh_requested, prevCycle>>

\* ------------------------------------------------------------------ the provider

kWh == Some("kWh")
R_first == Reading(Dt(0, 0, 0, 0), <<Datapoint(Some(1), kWh, None)>>, None)
R_second == Reading(Dt(0, 1, 0, 0), <<Datapoint(Some(2), kWh, None)>>, None)
R_priced == Reading(Dt(0, 0, 0, 0), <<Datapoint(Some(1), kWh, Some(RInt(2)))>>, None)
R_before == Reading(Dt(0 - 1, 23, 0, 0), <<Datapoint(Some(2), None, None)>>, Some(RInt(1)))

Intervals(readings) == [shape |-> "ok", readings |-> readings]

IntervalPayloads ==
    { Intervals(<<R_first, R_second>>),
      Intervals(<<R_priced>>),
      Intervals(<<R_priced, R_before>>),
      [shape |-> "no_intervals", readings |-> <<>>],
      [shape |-> "bad_element", readings |-> <<>>] }

Bills(bills) == [shape |-> "ok", bills |-> bills]

B_covering == Bill(Some(0 - 1), Some(1), Some(RInt(4)), None, None)

BillPayloads ==
    { Bills(<<>>),
      Bills(<<B_covering>>),
      [shape |-> "bad_element", bills |-> <<>>] }

Feeds == [intervals : IntervalPayloads, bills : BillPayloads]

\* What the provider serves for a meter no cycle of the behaviour asks for.
PlainFeed == [intervals |-> Intervals(<<R_first, R_second>>), bills |-> Bills(<<B_covering>>)]

\* What the provider serves for the second tracked meter: the plain feed, or
\* one whose interval payload holds an element that is no mapping. The cycle
\* runs the same code for every meter, so the full range of feeds is explored
\* on the first one.
SecondFeeds ==
    { PlainFeed,
      [intervals |-> [shape |-> "bad_element", readings |-> <<>>], bills |-> Bills(<<>>)] }

InitialTracked == {<<>>, <<"A">>, <<"A", "B">>}

Listings ==
    { <<>>,
      <<Listed("B", FALSE)>>,
      <<Listed("A", FALSE), Listed("B", FALSE)>>,
      <<Listed("A", FALSE), Listed("C", FALSE)>>,
      <<Listed("C", FALSE), Listed("A", FALSE)>>,
      <<Listed("A", FALSE), Listed("B", TRUE), Listed("C", FALSE)>> }

NoBudget == [cycles |-> 0, discoveries |-> 0, failures |-> 0]

\* ------------------------------------------------------------------ import service, at rest

\* _handle_import before it is called.  fetched, served and wrote are history:
\* the days fetched, the payloads served for them, the writes that returned.
IdleImport ==
    [pc |-> "idle", meter |-> "A", start |-> None, end |-> None, day |-> 0,
     cause |-> "none", fetched |-> <<>>, served |-> <<>>, wrote |-> <<>>]

\* ------------------------------------------------------------------ network client

\* self._sem = asyncio.Semaphore(5)
Permits == 5

\* The tasks that call _get: caller 1 is the setup (list_meters before the
\* coordinator exists), and then, like the others, a refresh cycle, a
\* discovery or a call of the import service.
ApiCallers == 1..MaxCallers
SetupCaller == 1

IdleCall == [pc |-> "idle", style |-> "", sent |-> 0]

\* history: the outcome of the latest call of _get that ended
NoResult ==
    [result |-> "none", answer |-> "", sent |-> 0, style |-> "",
     mode_before |-> "", mode_after |-> ""]

\* UtilityAPIClient.__init__: Semaphore(5), auth mode 'auto', no call of _get.
\* ready: async_setup_entry got its meter list, so the coordinator, the
\* discovery and the import service exist.  modes is history: the values the
\* auth mode has had.
NewClient ==
    [auth_mode |-> "auto", sem |-> Permits, waiters |-> <<>>,
     calls |-> [c \in ApiCallers |-> IdleCall],
     started |-> FALSE, ready |-> FALSE,
     modes |-> <<"auto">>, last |-> NoResult]

\* What the server or the network makes of a request: a status below 400 with
\* a JSON body or with a body that is none, 401/403, another status from 400,
\* a client error or the timeout.
Responses == {"ok", "bad_body", "unauthorized", "http_error", "network_error"}

\* "bearer" if self._auth_mode in ("auto", "bearer") else "x-api-key"
header_style(mode) == IF mode \in {"auto", "bearer"} THEN "bearer" ELSE "x-api-key"

\* self._session.get(url, headers=self._headers(...)): the first request
first_request(cl) == [pc |-> "first", style |-> header_style(cl.auth_mode), sent |-> 1]

\* self._auth_mode = mode
lock_mode(cl, mode) ==
    [cl EXCEPT !.auth_mode = mode,
               !.modes = IF mode = cl.auth_mode THEN @ ELSE Append(@, mode)]

mode_after_first_ok_always(mode) == "bearer"

\* if self._auth_mode == "auto": self._auth_mode = "bearer"
mode_after_first_ok(mode) == IF mode = "auto" THEN "bearer" ELSE mode

\* Semaphore.release at the exit of `async with self._sem`: the permit goes to
\* the first waiter, or back to the semaphore.
release(cl) ==
    IF cl.waiters = <<>> THEN [cl EXCEPT !.sem = @ + 1]
    ELSE [cl EXCEPT !.waiters = Tail(@), !.calls[Head(cl.waiters)].pc = "admitted"]

\* The call of caller c ends, cl being the client after its last statement.
get_ends(cl, c, result, answer) ==
    [cl EXCEPT !.calls[c] = IdleCall,
               !.last = [result |-> result, answer |-> answer,
                         sent |-> client.calls[c].sent, style |-> client.calls[c].style,
                         mode_before |-> client.auth_mode, mode_after |-> cl.auth_mode]]

get_raises_holding(cl, c, error, answer) == get_ends(cl, c, error, answer)

\* raise ...: the exception leaves `async with self._sem`
get_raises(cl, c, error, answer) == release(get_ends(cl, c, error, answer))

\* return await resp.json(), leaving `async with self._sem`
get_returns(cl, c) == release([get_ends(cl, c, "ok", "ok") EXCEPT !.ready = TRUE])

\* _get is called: `async with self._sem` takes a permit and the first request
\* is sent, or the caller waits for a permit.  Before the setup has its meter
\* list nothing but the setup calls, once.
GetCall(c) ==
    /\ client.calls[c].pc = "idle"
    /\ client.ready \/ (c = SetupCaller /\ ~client.started)
    /\ client' =
          IF client.sem > 0
          THEN [client EXCEPT !.sem = @ - 1, !.started = TRUE,
                              !.calls[c] = first_request(client)]
          ELSE [client EXCEPT !.waiters = Append(@, c), !.calls[c].pc = "waiting"]
    /\ UNCHANGED <<recorder_ok, stats, wr, lastCall, prevCall, nWrites, imp, cycleVars>>

\* A waiter that was given a permit runs again and sends its first request.
GetResume(c) ==
    /\ client.calls[c].pc = "admitted"
    /\ client' = [client EXCEPT !.calls[c] = first_request(client)]
    /\ UNCHANGED <<recorder_ok, stats, wr, lastCall, prevCall, nWrites, imp, cycleVars>>

\* The first request is answered, or fails.
GetFirstResponse(c, answer) ==
    /\ client.calls[c].pc = "first"
    /\ client' =
          CASE answer = "unauthorized" ->
                   IF client.auth_mode = "auto"
                   THEN [client EXCEPT !.calls[c] =
                            [pc |-> "second", style |-> "x-api-key", sent |-> 2]]
                   ELSE get_raises(client, c, "InvalidAuthError", answer)
            [] answer \in {"http_error", "network_error"} ->
                   get_raises(client, c, "UtilityAPIError", answer)
            [] answer = "bad_body" ->
                   get_raises(lock_mode(client, mode_after_first_ok(client.auth_mode)),
                              c, "UtilityAPIError", answer)
            [] OTHER ->
                   get_returns(lock_mode(client, mode_after_first_ok(client.auth_mode)), c)
    /\ UNCHANGED <<recorder_ok, stats, wr, lastCall, prevCall, nWrites, imp, cycleVars>>

\* The request with the alternate header is answered, or fails.
GetSecondResponse(c, answer) ==
    /\ client.calls[c].pc = "second"
    /\ client' =
          CASE answer = "unauthorized" -> get_raises(client, c, "InvalidAuthError", answer)
            [] answer \in {"http_error", "network_error"} ->
                   get_raises(client, c, "UtilityAPIError", answer)
            [] answer = "bad_body" ->
                   get_raises(lock_mode(client, "x-api-key"), c, "UtilityAPIError", answer)
            [] OTHER -> get_returns(lock_mode(client, "x-api-key"), c)
    /\ UNCHANGED <<recorder_ok, stats, wr, lastCall, prevCall, nWrites, imp, cycleVars>>

\* A request in flight of caller c comes back: the session answers or raises
\* within ClientTimeout(total=30).
GetResponds(c) ==
    \/ \E answer \in Responses : GetFirstResponse(c, answer)
    \/ \E answer \in Responses : GetSecondResponse(c, answer)

\* ------------------------------------------------------------------ direct calls

D0H0 == Dt(0, 0, 0, 0)
D0H0Half == Dt(0, 0, 30, 0)
D0H1 == Dt(0, 1, 0, 0)
DPrevH23 == Dt(0 - 1, 23, 0, 0)

HourRecs ==
    { Hour(D0H0, Some(1), None),
      Hour(D0H0Half, None, Some(RInt(2))),
      Hour(D0H1, Some(2), Some(RInt(1))),
      Hour(DPrevH23, Some(1), Some(RZero)),
      Hour(Garbage, Some(1), None) }

\* The sequences of at most n distinct elements of S.
RECURSIVE DistinctSeqs(_, _)
DistinctSeqs(S, n) ==
    IF n = 0 THEN {<<>>}
    ELSE LET shorter == DistinctSeqs(S, n - 1)
         IN  shorter \cup
             {Append(s, x) : s \in {t \in shorter : Len(t) = n - 1},
                             x \in S}

Batches == {s \in DistinctSeqs(HourRecs, MaxBatch) :
              \A i, j \in DOMAIN s : i # j => s[i] # s[j]}


\* The meter the direct calls are made for (meter_id of the import service).
DirectMeters == {"A"}

NoCall == [meter |-> "A", hours |-> <<>>, made |-> FALSE]

InitWriter ==
    /\ recorder_ok \in BOOLEAN
    /\ stats = [m \in Meters |-> EmptyStats]
    /\ wr = [c \in Callers |-> IdleWrite]
    /\ lastCall = NoCall
    /\ prevCall = NoCall
    /\ nWrites = 0
    /\ meter_ids = <<>>
    /\ feed = [m \in Meters |-> PlainFeed]
    /\ cyc = IdleCycle
    /\ disc = IdleDisc
    /\ refresh_requested = FALSE
    /\ prevCycle = NoPrevCycle
    /\ budget = NoBudget
    /\ imp = IdleImport
    /\ client = NewClient

\* A caller awaits async_write_hourly_usage_cost(hass, m, unit, currency, hours).
DirectCall(m, hours) ==
    /\ wr["direct"].pc \in {"idle", "done", "raised"}
    /\ nWrites < MaxWrites
    /\ wr' = [wr EXCEPT !["direct"] = BeginWrite(m, hours)]
    /\ prevCall' = lastCall
    /\ lastCall' = [meter |-> m, hours |-> hours, made |-> TRUE]
    /\ nWrites' = nWrites + 1
    /\ UNCHANGED <<recorder_ok, stats, cycleVars, imp, client>>

DirectStep ==
    /\ \/ WriteReadLast("direct")
       \/ WriteAppendUsage("direct")
       \/ WriteAppendCost("direct")
    /\ UNCHANGED <<recorder_ok, directVars, cycleVars>>

NextWriter ==
    \/ \E m \in DirectMeters, hours \in Batches : DirectCall(m, hours)
    \/ DirectStep

SpecWriter == InitWriter /\ [][NextWriter]_vars

\* ------------------------------------------------------------------ specifications

\* The integration after setup, the recorder present: refresh cycles over the
\* tracked list, the provider serving each meter one interval payload and one
\* bill payload, with API errors and recorder failures.
Init ==
    /\ recorder_ok = TRUE
    /\ stats = [m \in Meters |-> EmptyStats]
    /\ wr = [c \in Callers |-> IdleWrite]
    /\ lastCall = NoCall
    /\ prevCall = NoCall
    /\ nWrites = 0
    /\ meter_ids \in InitialTracked
    /\ feed \in [Meters -> Feeds]
    /\ \A m \in Meters \ InRange(meter_ids) : feed[m] = PlainFeed
    /\ feed["B"] \in SecondFeeds
    /\ cyc = IdleCycle
    /\ disc = [IdleDisc EXCEPT !.initial = meter_ids]
    /\ refresh_requested = FALSE
    /\ prevCycle = NoPrevCycle
    /\ budget = NoBudget
    /\ imp = IdleImport
    /\ client = NewClient

Next ==
    \/ CycleStart
    \/ \E outcome \in {"meter", "listing", "error"} : FetchSummary(outcome)
    \/ \E outcome \in {"ok", "error"} : FetchIntervals(outcome)
    \/ \E outcome \in {"ok", "error"} : FetchBills(outcome)
    \/ PersistBegin
    \/ CycleWriteStep
    \/ CycleWriteFails
    \/ PersistReturn
    \/ Assemble

Spec == Init /\ [][Next]_vars

\* Discovery interleaved with refresh cycles whose fetches succeed.
InitDiscovery ==
    /\ Init
    /\ feed = [m \in Meters |-> PlainFeed]

NextDiscovery ==
    \/ CycleStart
    \/ FetchSummary("meter")
    \/ FetchIntervals("ok")
    \/ FetchBills("ok")
    \/ PersistBegin
    \/ CycleWriteStep
    \/ PersistReturn
    \/ Assemble
    \/ DiscStart
    \/ \E meters \in Listings : DiscListed(meters)
    \/ DiscError

SpecDiscovery == InitDiscovery /\ [][NextDiscovery]_vars

\* ------------------------------------------------------------------ the pipeline of one meter

\* Readings of yesterday and of the day before: with and without costs, a cost
\* of zero, a value float() rejects, a time zone offset, no start.
P_zero_cost == Reading(Dt(0, 2, 0, 0), <<Datapoint(Some(1), kWh, Some(RZero))>>, None)
P_offset ==
    Reading(Dt(0, 23, 30, 0 - 2),
            <<Datapoint(None, None, None), Datapoint(Some(3), Some("Wh"), None)>>,
            Some(RInt(1)))
P_no_start == Reading(NoStart, <<Datapoint(Some(0), None, None)>>, None)

PipelineReadings ==
    {R_first, R_second, R_priced, R_before, P_zero_cost, P_offset, P_no_start}

\* Bills: one covering yesterday, one covering it with a total of 0, one
\* covering it with a total of 0 and an amount due, one of a later period.
B_zero_total == Bill(Some(0 - 1), Some(1), Some(RZero), None, None)
B_amount_due == Bill(Some(0), Some(1), Some(RZero), Some(RInt(6)), None)
B_later == Bill(Some(1), Some(3), Some(RInt(8)), None, None)
B_month == Bill(Some(0 - 14), Some(17), Some(RInt(310)), None, None)

PipelineBills == {B_covering, B_zero_total, B_amount_due, B_later, B_month}

\* The sequences of at most n elements of S, no element twice.
NoRepeat(S, n) ==
    {s \in DistinctSeqs(S, n) : \A i, j \in DOMAIN s : i # j => s[i] # s[j]}

\* A payload that holds its readings under another key than "intervals".
MisplacedIntervals(readings) == [shape |-> "no_intervals", readings |-> readings]

PipelineFeeds ==
    [intervals : {Intervals(rs) : rs \in NoRepeat(PipelineReadings, MaxReadings)}
                 \cup {MisplacedIntervals(<<R_first>>)},
     bills : {Bills(bs) : bs \in NoRepeat(PipelineBills, MaxBills)}]

\* One tracked meter, served one of the given feeds.
InitOneMeter(feeds) ==
    /\ recorder_ok = TRUE
    /\ stats = [m \in Meters |-> EmptyStats]
    /\ wr = [c \in Callers |-> IdleWrite]
    /\ lastCall = NoCall
    /\ prevCall = NoCall
    /\ nWrites = 0
    /\ meter_ids = <<"A">>
    /\ \E f \in feeds :
           feed = [m \in Meters |-> IF m = "A" THEN f ELSE PlainFeed]
    /\ cyc = IdleCycle
    /\ disc = [IdleDisc EXCEPT !.initial = meter_ids]
    /\ refresh_requested = FALSE
    /\ prevCycle = NoPrevCycle
    /\ budget = NoBudget
    /\ imp = IdleImport
    /\ client = NewClient

\* The first refresh of the setup over every payload of the pipeline, every
\* fetch succeeding.
InitPipeline == InitOneMeter(PipelineFeeds)

\* async_config_entry_first_refresh
FirstRefresh ==
    /\ cyc.status = "none"
    /\ CycleStart

\* The hourly records the import service builds from a day's payload: usage
\* summed over the datapoints, cost always None.
import_hours(payload) ==
    LET rs == payload_readings(payload)
    IN  [i \in DOMAIN rs |-> Hour(rs[i].start, Some(reading_usage(rs[i].datapoints)), None)]

\* One day of _handle_import: the intervals of the day are fetched and the
\* writer is called with the records built from them.
ImportDay(m) ==
    /\ feed[m].intervals.shape # "bad_element"
    /\ DirectCall(m, import_hours(feed[m].intervals))

NextPipeline ==
    \/ FirstRefresh
    \/ FetchSummary("meter")
    \/ FetchIntervals("ok")
    \/ FetchBills("ok")
    \/ PersistBegin
    \/ CycleWriteStep
    \/ PersistReturn
    \/ Assemble

SpecPipeline == InitPipeline /\ [][NextPipeline]_vars

\* The import service called while the first refresh runs, for a payload that
\* holds no interval list and for payloads that do.
ImportFeeds ==
    [intervals : { MisplacedIntervals(<<R_first>>),
                   Intervals(<<R_first, R_second>>),
                   Intervals(<<R_priced, R_before>>),
                   Intervals(<<P_no_start>>) },
     bills : {Bills(<<>>), Bills(<<B_covering>>)}]

InitImport == InitOneMeter(ImportFeeds)

NextImport ==
    \/ NextPipeline
    \/ \E m \in DirectMeters : ImportDay(m)
    \/ DirectStep

SpecImport == InitImport /\ [][NextImport]_vars

\* ------------------------------------------------------------------ the bulk import

\* start_d = dt_util.parse_date(start_s): a day number, or None when the text
\* is no date.
ImportDates == {None} \cup {Some(d) : d \in 0..MaxDays}

\* What get_intervals may answer for one day of the range.
DayPayloads ==
    { Intervals(<<R_first, R_second>>),
      Intervals(<<R_priced, R_before>>),
      Intervals(<<P_no_start>>),
      MisplacedIntervals(<<R_first>>),
      [shape |-> "bad_element", readings |-> <<>>] }

\* raise HomeAssistantError(...), from the date check or from except Exception
import_raises(i, cause) == [i EXCEPT !.pc = "error", !.cause = cause]

import_loop_inclusive(i, day) ==
    IF day <= Val(i.end) THEN [i EXCEPT !.pc = "fetch", !.day = day]
    ELSE [i EXCEPT !.pc = "done", !.day = day]

\* while day < end_d: the next day of the range is fetched, or the loop ends.
import_loop(i, day) ==
    IF day < Val(i.end) THEN [i EXCEPT !.pc = "fetch", !.day = day]
    ELSE [i EXCEPT !.pc = "done", !.day = day]

\* The service is called: the schema, the dates, the head of the loop.
ImportCall(m, start, end) ==
    /\ imp.pc = "idle"
    /\ LET i == [imp EXCEPT !.meter = m, !.start = start, !.end = end]
       IN  imp' = IF IsNone(start) \/ IsNone(end) THEN import_raises(i, "format")
                  ELSE import_loop(i, Val(start))
    /\ UNCHANGED <<recorder_ok, stats, wr, lastCall, prevCall, nWrites, client, cycleVars>>

\* intervals = await client.get_intervals(meter_id, day, day_next), the records
\* of the day, and the call of the writer up to its first await.
ImportFetch(outcome, payload) ==
    /\ imp.pc = "fetch"
    /\ outcome = "ok" \/ CanFail
    /\ LET i == [imp EXCEPT !.fetched = Append(@, imp.day)]
           got == [i EXCEPT !.served = Append(@, payload)]
           hours == import_hours(payload)
       IN  IF outcome = "error"
           THEN /\ imp' = import_raises(i, "fetch")
                /\ UNCHANGED <<wr, lastCall, prevCall, nWrites>>
           ELSE IF payload.shape = "bad_element"
           THEN /\ imp' = import_raises(got, "shape")
                /\ UNCHANGED <<wr, lastCall, prevCall, nWrites>>
           ELSE /\ imp' = [got EXCEPT !.pc = "write"]
                /\ wr' = [wr EXCEPT !["direct"] = BeginWrite(imp.meter, hours)]
                /\ prevCall' = lastCall
                /\ lastCall' = [meter |-> imp.meter, hours |-> hours, made |-> TRUE]
                /\ nWrites' = nWrites + 1
    /\ budget' = IF outcome = "ok" THEN budget ELSE Spend
    /\ UNCHANGED <<recorder_ok, stats, client, meter_ids, feed, cyc, disc,
                   refresh_requested, prevCycle>>

\* The awaits of the write the import is in.
ImportWriteStep ==
    /\ imp.pc = "write"
    /\ DirectStep

\* A recorder call of the write raises.
ImportWriteFails ==
    /\ imp.pc = "write"
    /\ wr["direct"].pc \in {"read", "usage", "cost"}
    /\ CanFail
    /\ wr' = [wr EXCEPT !["direct"].pc = "raised"]
    /\ budget' = Spend
    /\ UNCHANGED <<recorder_ok, stats, directVars, meter_ids, feed, cyc, disc,
                   refresh_requested, prevCycle>>

\* The write of the day returned (day = day_next, the head of the loop) or
\* raised (except Exception: raise HomeAssistantError).
ImportReturn ==
    /\ imp.pc = "write"
    /\ wr["direct"].pc \in {"done", "raised"}
    /\ imp' = IF wr["direct"].pc = "raised" THEN import_raises(imp, "write")
              ELSE import_loop([imp EXCEPT !.wrote = Append(@, wr["direct"])], imp.day + 1)
    /\ UNCHANGED <<recorder_ok, stats, wr, lastCall, prevCall, nWrites, client, cycleVars>>

BulkFeeds ==
    { PlainFeed,
      [intervals |-> Intervals(<<R_priced, R_before>>), bills |-> Bills(<<>>)] }

\* One tracked meter, the recorder present or not.
InitBulk ==
    /\ recorder_ok \in BOOLEAN
    /\ stats = [m \in Meters |-> EmptyStats]
    /\ wr = [c \in Callers |-> IdleWrite]
    /\ lastCall = NoCall
    /\ prevCall = NoCall
    /\ nWrites = 0
    /\ meter_ids = <<"A">>
    /\ \E f \in BulkFeeds :
           feed = [m \in Meters |-> IF m = "A" THEN f ELSE PlainFeed]
    /\ cyc = IdleCycle
    /\ disc = [IdleDisc EXCEPT !.initial = meter_ids]
    /\ refresh_requested = FALSE
    /\ prevCycle = NoPrevCycle
    /\ budget = NoBudget
    /\ imp = IdleImport
    /\ client = NewClient

ImportProgress ==
    \/ \E payload \in DayPayloads : ImportFetch("ok", payload)
    \/ ImportWriteStep
    \/ ImportReturn

NextHandleImport ==
    \/ \E m \in DirectMeters, start, end \in ImportDates : ImportCall(m, start, end)
    \/ \E payload \in DayPayloads : ImportFetch("error", payload)
    \/ ImportWriteFails
    \/ ImportProgress

\* The import service alone, with API errors and recorder failures.  Every
\* await of the import comes back: a response, an error or the client's timeout.
SpecHandleImport == InitBulk /\ [][NextHandleImport]_vars /\ WF_vars(ImportProgress)

NextBulk ==
    \/ NextPipeline
    \/ NextHandleImport

\* The import service next to the first refresh.
SpecBulk == InitBulk /\ [][NextBulk]_vars

\* ------------------------------------------------------------------ the network client under load

InitClient == InitOneMeter({PlainFeed})

NextClient ==
    \E c \in ApiCallers :
        \/ GetCall(c)
        \/ GetResume(c)
        \/ GetResponds(c)

\* The setup's call of list_meters and, once it has returned, calls of _get
\* from any task.  Every request comes back and every task that was given a
\* permit runs again.
SpecClient ==
    /\ InitClient
    /\ [][NextClient]_vars
    /\ \A c \in ApiCallers : WF_vars(GetResponds(c)) /\ WF_vars(GetResume(c))

\* ------------------------------------------------------------------ claims: the writer

\* The sum of the function f over the finite set S (integers, rationals).
RECURSIVE SumInt(_, _)
SumInt(S, f) ==
    IF S = {} THEN 0
    ELSE LET x == CHOOSE y \in S : TRUE IN f[x] + SumInt(S \ {x}, f)

RECURSIVE SumRat(_, _)
SumRat(S, f) ==
    IF S = {} THEN RZero
    ELSE LET x == CHOOSE y \in S : TRUE IN RAdd(f[x], SumRat(S \ {x}, f))

\* Hour i of a batch is written at or before hour j: earlier hour start, or the
\* same hour start and not later in the batch.
AtOrBefore(hours, i, j) ==
    \/ SortKey(hours[i]) < SortKey(hours[j])
    \/ SortKey(hours[i]) = SortKey(hours[j]) /\ i <= j

Min(S) == CHOOSE x \in S : \A y \in S : x <= y
RLeq(x, y) == x[1] * y[2] <= y[1] * x[2]

DirectDone == wr["direct"].pc = "done" /\ recorder_ok /\ lastCall.made

\* C1: a second call of the writer with the same meter and the same hours as
\* the call before it leaves every stored usage and cost point at the value it
\* had after the first call.
C1_WriteTwiceSameValues ==
    (wr["direct"].pc \in {"done", "raised"} /\ lastCall.made /\ prevCall = lastCall)
        => stats[lastCall.meter] = wr["direct"].before

\* C3: after one write, the usage stored at every hour T of the batch is the
\* usage that was stored at the last hour before the batch, plus the usage of
\* the hours of the batch with hour start at or before T.
StoredBeforeBatch(series, hours) ==
    LET first == Min({SortKey(hours[i]) : i \in DOMAIN hours})
        earlier == {t \in DOMAIN series : t < first}
    IN  IF earlier = {} THEN 0 ELSE series[Max(earlier)]

C3_UsageContinuesFromHourBeforeBatch ==
    LET w == wr["direct"]
        Usage == [i \in DOMAIN w.hours |-> UsageOr0(w.hours[i])]
    IN  (DirectDone /\ w.hours # <<>>) =>
            \A j \in DOMAIN w.hours :
                stats[w.meter].usage[SortKey(w.hours[j])] =
                    StoredBeforeBatch(w.before.usage, w.hours)
                    + SumInt({i \in DOMAIN w.hours :
                                SortKey(w.hours[i]) <= SortKey(w.hours[j])}, Usage)

\* C5: a write emits one usage point per hour and a cost point exactly for the
\* hours whose cost is not null; every cost point carries the last stored cost
\* plus the costs of the hours written at or before it, so an hour with a null
\* cost neither moves the running cost nor stores a cost point.
C5_NullCostHourWritesNoCostPoint ==
    LET w == wr["direct"]
        n == Len(w.hours)
        priced == {i \in 1..n : ~IsNone(w.hours[i].cost)}
        Cost == [i \in priced |-> Val(w.hours[i].cost)]
        Expected(i) ==
            [start |-> SortKey(w.hours[i]),
             sum |-> RAdd(w.last_cost, SumRat({k \in priced : AtOrBefore(w.hours, k, i)}, Cost))]
    IN  DirectDone =>
            /\ Len(w.usage_written) = n
            /\ {w.usage_written[k].start : k \in DOMAIN w.usage_written}
                   = {SortKey(w.hours[i]) : i \in 1..n}
            /\ Len(w.cost_written) = Cardinality(priced)
            /\ \A i \in priced :
                   w.cost_written[Cardinality({k \in priced : AtOrBefore(w.hours, k, i)})]
                       = Expected(i)
            /\ \A t \in DOMAIN stats[w.meter].cost :
                   (\A i \in priced : SortKey(w.hours[i]) # t)
                       => t \in DOMAIN w.before.cost
                          /\ stats[w.meter].cost[t] = w.before.cost[t]

\* A write of a batch with a null-cost hour and a priced hour onto a series that
\* already holds a cost point.
C5_Witness ==
    LET w == wr["direct"]
    IN  /\ DirectDone
        /\ \E i, j \in DOMAIN w.hours : IsNone(w.hours[i].cost) /\ ~IsNone(w.hours[j].cost)
        /\ DOMAIN w.before.cost # {}

\* ------------------------------------------------------------------ claims: the refresh cycle

LastInput == cyc.inputs[Len(cyc.inputs)]
HasInput(m, kind, outcome) == \E i \in DOMAIN cyc.inputs : cyc.inputs[i] = <<m, kind, outcome>>
IndexIn(list, m) == CHOOSE i \in DOMAIN list : list[i] = m
\* The iteration of meter m of the current cycle is over.
Passed(m) ==
    /\ m \in InRange(cyc.list)
    /\ cyc.status # "none"
    /\ IndexIn(cyc.list, m) < cyc.idx \/ cyc.status = "ok"
HasResult(m) == \E i \in DOMAIN cyc.results : cyc.results[i].meter = m
WriterIdle(c) == wr[c].pc \in {"idle", "done", "raised"}

NonDecreasingInt(series) ==
    \A t1, t2 \in DOMAIN series : t1 < t2 => series[t1] <= series[t2]
NonDecreasingRat(series) ==
    \A t1, t2 \in DOMAIN series : t1 < t2 => RLeq(series[t1], series[t2])

\* C2: between the writes of the refresh cycles, the stored usage series and
\* the stored cost series of every meter are non-decreasing in hour order (all
\* usage and cost deltas of the provider's payloads are non-negative).
C2_SeriesNonDecreasing ==
    WriterIdle("cycle") =>
        \A m \in Meters : /\ NonDecreasingInt(stats[m].usage)
                           /\ NonDecreasingRat(stats[m].cost)

\* C4: a refresh cycle that completes after a completed cycle over the same
\* tracked list, with the same payloads and no failure in either of them,
\* leaves the stored series as the first of the two cycles left them.
C4_SecondCycleChangesNothing ==
    ( /\ cyc.pc = "idle" /\ cyc.status = "ok"
      /\ prevCycle.made /\ prevCycle.status = "ok"
      /\ prevCycle.list = cyc.list /\ prevCycle.inputs = cyc.inputs
      /\ \A i \in DOMAIN cyc.inputs : cyc.inputs[i][3] \in {"meter", "listing", "ok"} )
        => stats = prevCycle.stats

\* C6: once the summary fetch of meter k has failed, the cycle has ended with
\* UpdateFailed and returned nothing; the failed fetch is the last thing the
\* cycle did, for meter k and for every meter after it; and every point a write
\* of this cycle stored is still in the store.
C6_SummaryErrorEndsCycle ==
    \A i \in DOMAIN cyc.inputs :
        (cyc.inputs[i][2] = "summary" /\ cyc.inputs[i][3] = "error") =>
            LET k == cyc.inputs[i][1]
                n == Len(cyc.trace)
            IN  /\ i = Len(cyc.inputs)
                /\ cyc.status = "UpdateFailed" /\ cyc.pc = "idle"
                /\ IsNone(cyc.returned)
                /\ k = cyc.list[cyc.idx]
                /\ cyc.trace[n] = <<k, "FETCH_SUMMARY">>
                /\ \A j \in 1..(n - 1) :
                       cyc.trace[j][1] \in {cyc.list[x] : x \in 1..(cyc.idx - 1)}
                /\ Len(cyc.results) = cyc.idx - 1
                /\ WriterIdle("cycle")
                /\ stats = cyc.end_stats
                /\ \A w \in DOMAIN cyc.written :
                       \A r \in DOMAIN cyc.written[w].usage_written :
                           cyc.written[w].usage_written[r].start
                               \in DOMAIN stats[cyc.written[w].meter].usage

\* The summary fetch of the second meter failed after the first meter's hours
\* were persisted.
C6_Witness ==
    /\ cyc.cause = "summary"
    /\ cyc.idx = 2
    /\ cyc.written # <<>>
    /\ DOMAIN stats[cyc.list[1]].usage # {}

\* What the normalizer makes of the payload the provider serves for meter m.
Normalized(m) == normalize(payload_readings(feed[m].intervals))

C8_BillAndPersistErrorsContained ==
    /\ cyc.status \in {"UpdateFailed", "error"} =>
           /\ LastInput[2] # "persist"
           /\ ~(LastInput[2] = "bills" /\ LastInput[3] = "error")
    /\ (cyc.inputs # <<>> /\ LastInput[2] = "bills" /\ LastInput[3] = "error") =>
           LET m == LastInput[1]
               ok == HasInput(m, "intervals", "ok")
           IN  /\ cyc.daily = IF ok THEN daily_of(Normalized(m)) ELSE daily_unknown
               /\ cyc.hours = IF ok THEN Normalized(m).hours ELSE <<>>
    /\ \A m \in Meters : Passed(m) => HasResult(m)
    /\ \A i \in DOMAIN cyc.results :
           LET r == cyc.results[i]
               ok == HasInput(r.meter, "intervals", "ok")
           IN  /\ r.summary \in {"meter", "listing"}
               /\ HasInput(r.meter, "bills", "error") =>
                      /\ r.daily = IF ok THEN daily_of(Normalized(r.meter)) ELSE daily_unknown
                      /\ r.yesterday_hours = IF ok THEN Normalized(r.meter).hours ELSE <<>>
    /\ cyc.status = "ok" => Len(cyc.results) = Len(cyc.list)

\* A completed cycle over two meters with a bill fetch error for the first
\* meter and a recorder failure in the persist stage of one of them.
C8_Witness ==
    /\ cyc.status = "ok"
    /\ Len(cyc.results) = 2
    /\ HasInput(cyc.list[1], "bills", "error")
    /\ \E m \in Meters : HasInput(m, "persist", "error")

\* ------------------------------------------------------------------ claims: discovery

\* The meters whose iteration the current cycle has begun, in order.
Processed ==
    LET begun == SelectSeq(cyc.trace, LAMBDA e : e[2] = "FETCH_SUMMARY")
    IN  [i \in DOMAIN begun |-> begun[i][1]]
IsPrefix(a, b) == Len(a) <= Len(b) /\ \A i \in DOMAIN a : a[i] = b[i]
NonArchivedIds(meters) ==
    LET kept == {i \in DOMAIN meters : ~meters[i].archived}
        nth[k \in 0..Len(meters)] ==
            IF k = 0 THEN <<>>
            ELSE IF k \in kept THEN Append(nth[k - 1], meters[k].id) ELSE nth[k - 1]
    IN  nth[Len(meters)]
\* The tracked list after the n-th replacement (the list of the setup for n = 0).
TrackedAfter(n) == IF n = 0 THEN disc.initial ELSE NonArchivedIds(disc.listings[n])

\* C9: after a replacement the tracked list is exactly the non-archived ids of
\* the listing, in the listing's order, and a cycle that starts afterwards walks
\* that list: it begins the meters in that order, touches no other meter, and
\* has processed all of them when it completes.
C9_ReplacementIsWholesale ==
    /\ disc.count >= 1 => meter_ids = NonArchivedIds(disc.listings[disc.count])
    /\ (cyc.status # "none" /\ cyc.epoch >= 1) =>
           LET new == NonArchivedIds(disc.listings[cyc.epoch])
           IN  /\ cyc.list = new
               /\ IsPrefix(Processed, new)
               /\ \A i \in DOMAIN cyc.trace : cyc.trace[i][1] \in InRange(new)
               /\ \A i \in DOMAIN cyc.results : cyc.results[i].meter = new[i]
               /\ cyc.status = "ok" => Processed = new

\* [A, B] was replaced with [A, C] and a later cycle completed over A and C.
C9_Witness ==
    /\ disc.initial = <<"A", "B">>
    /\ disc.count = 1
    /\ meter_ids = <<"A", "C">>
    /\ cyc.epoch = 1
    /\ cyc.status = "ok"
    /\ Processed = <<"A", "C">>

\* C10: wherever a replacement lands in a running cycle, the cycle walks the
\* whole list that was tracked when it began (the list before the replacement)
\* and nothing else; a cycle that begins later walks the whole new list; and
\* whenever a refresh is asked for by a discovery, the tracked list is already
\* the new one.
C10_CycleSeesOneList ==
    /\ cyc.status # "none" =>
           LET own == TrackedAfter(cyc.epoch)
           IN  /\ IsPrefix(Processed, own)
               /\ \A i \in DOMAIN cyc.trace : cyc.trace[i][1] \in InRange(own)
               /\ cyc.status = "ok" =>
                      /\ Processed = own
                      /\ Len(cyc.results) = Len(own)
                      /\ \A i \in DOMAIN own : cyc.results[i].meter = own[i]
    /\ refresh_requested =>
           /\ disc.count >= 1
           /\ meter_ids = TrackedAfter(disc.count)

\* A replacement landed while the cycle was in the iteration of its first
\* meter; the cycle completed over its own two meters, which are not the
\* tracked ones any more.
C10_Witness ==
    /\ disc.count = 1
    /\ disc.at_pc \notin {"idle", "summary"}
    /\ disc.at_idx = 1
    /\ cyc.epoch = 0
    /\ Len(cyc.list) = 2
    /\ InRange(meter_ids) # InRange(cyc.list)
    /\ cyc.status = "ok"
    /\ Processed = cyc.list

\* ------------------------------------------------------------------ claims: the pipeline

\* The iteration of meter m is the current one and its interval fetch came back.
Normalizing(m) ==
    /\ cyc.status \in {"running", "ok"}
    /\ cyc.list[cyc.idx] = m
    /\ HasInput(m, "intervals", "ok")
BillStageRan(m) == \E i \in DOMAIN cyc.trace : cyc.trace[i] = <<m, "ESTIMATE_COST">>

\* C11: the bill stage runs for a meter only when the cost reported for
\* yesterday is null or sums to zero; when the reported costs sum to another
\* value no bill is fetched, and the daily cost and the hourly records are
\* those of the normalizer.
C11_BillStageOnlyWithoutReportedCost ==
    \A m \in Meters :
        Normalizing(m) =>
            LET n == Normalized(m)
                reported == n.total_cost_reported
            IN  /\ BillStageRan(m) => reported = RZero
                /\ reported # RZero =>
                       /\ ~BillStageRan(m)
                       /\ ~HasInput(m, "bills", "ok")
                       /\ cyc.daily.cost = Some(reported)
                       /\ cyc.hours = n.hours
                       /\ cyc.by_day = Some(n.by_day)
                       /\ \A i \in DOMAIN cyc.results :
                              cyc.results[i].meter = m =>
                                  /\ cyc.results[i].daily.cost = Some(reported)
                                  /\ cyc.results[i].yesterday_hours = n.hours

\* A completed cycle for a meter with a positive reported cost and a bill that
\* covers yesterday.
C11_Witness ==
    /\ cyc.status = "ok"
    /\ HasResult("A")
    /\ Normalized("A").total_cost_reported = RInt(2)
    /\ ~IsNone(est_cost(bill_list_of(feed["A"].bills)))

\* The bill stage of meter m came back with a bill list.
Estimating(m) == Normalizing(m) /\ HasInput(m, "bills", "ok")
BillsOf(m) == bill_list_of(feed[m].bills)
\* p_start <= target_day < p_end
Covers(b) ==
    /\ ~IsNone(b.start) /\ ~IsNone(b.end)
    /\ Val(b.start) <= yesterday_date /\ yesterday_date < Val(b.end)
PeriodDays(b) == Max({1, Val(b.end) - Val(b.start)})
\* The amounts a bill carries, in any of its amount fields.
Amounts(b) == {Val(a) : a \in {x \in {b.total, b.amount_due, b.amount} : ~IsNone(x)}}

\* C12: when a bill of the list covers yesterday, the estimate comes from the
\* first such bill in source order, whatever its total and whichever field
\* carries its amount; no later bill is used.
C12_FirstCoveringBillIsUsed ==
    \A m \in Meters :
        Estimating(m) =>
            LET bills == BillsOf(m)
                covering == {i \in DOMAIN bills : Covers(bills[i])}
            IN  covering # {} =>
                    LET b == bills[Min(covering)]
                    IN  cyc.daily.cost \in
                            {Some(RDiv(a, RInt(PeriodDays(b)))) : a \in Amounts(b)}

\* C13: when a bill is selected, the estimate is its total divided by the
\* days of its period (at least 1), and it is the daily cost of the meter.
C13_EstimateIsTotalOverDays ==
    \A m \in Meters :
        (Estimating(m) /\ ~IsNone(est_cost(BillsOf(m)))) =>
            LET bills == BillsOf(m)
                b == bills[Min({i \in DOMAIN bills : ~IsNone(bill_estimate(bills[i]))})]
            IN  ~IsNone(b.total) =>
                    cyc.daily.cost = Some(RDiv(Val(b.total), RInt(PeriodDays(b))))

C15_EstimationOnlyFillsGaps ==
    \A m \in Meters :
        Estimating(m) =>
            LET before == Normalized(m).hours
            IN  /\ Len(cyc.hours) = Len(before)
                /\ \A i \in DOMAIN before :
                       ~IsNone(before[i].cost) => cyc.hours[i].cost = before[i].cost

\* The normalizer's output for meter m is in the cycle, no estimate made yet.
Normalized_Only(m) == Normalizing(m) /\ LastInput = <<m, "intervals", "ok">>
ReadingsOf(m) == payload_readings(feed[m].intervals)
BucketHours == [b \in DOMAIN Val(cyc.by_day) |-> Len(Val(cyc.by_day)[b].hours)]

\* What the claim expects of a reading: the sum of the numeric datapoint
\* values, the sum of the costs present (none present: no cost), and the first
\* unit met in the payload up to the reading.
ExpectedUsage(r) ==
    LET numeric == {k \in DOMAIN r.datapoints : ~IsNone(r.datapoints[k].value)}
    IN  SumInt(numeric, [k \in numeric |-> Val(r.datapoints[k].value)])
ExpectedCost(r) ==
    LET priced == {k \in DOMAIN r.datapoints : ~IsNone(r.datapoints[k].cost)}
        at_datapoints == SumRat(priced, [k \in priced |-> Val(r.datapoints[k].cost)])
    IN  IF priced = {} /\ IsNone(r.cost) THEN None
        ELSE IF IsNone(r.cost) THEN Some(at_datapoints)
        ELSE Some(RAdd(at_datapoints, Val(r.cost)))
ExpectedUnit(rs, i) ==
    LET datapoints == UNION {{<<j, k>> : k \in DOMAIN rs[j].datapoints} : j \in 1..i}
        with_unit == {p \in datapoints : ~IsNone(rs[p[1]].datapoints[p[2]].unit)}
        first == CHOOSE p \in with_unit :
                    \A q \in with_unit : p[1] < q[1] \/ (p[1] = q[1] /\ p[2] <= q[2])
    IN  IF with_unit = {} THEN None ELSE rs[first[1]].datapoints[first[2]].unit
ExpectedEntry(rs, i) ==
    Entry(rs[i].start, Some(ExpectedUsage(rs[i])), ExpectedCost(rs[i]), ExpectedUnit(rs, i))

\* C16: the normalizer emits one hourly record per reading of the payload, no
\* more; the record of a reading carries the sum of its numeric datapoint
\* values, the first unit met so far, and the sum of the costs present at
\* datapoint and reading level, or no cost when none is present.
C16_OneRecordPerReading ==
    \A m \in Meters :
        Normalized_Only(m) =>
            LET rs == ReadingsOf(m)
                by_day == Val(cyc.by_day)
            IN  /\ SumInt(DOMAIN by_day, BucketHours) = Len(rs)
                /\ \A i \in DOMAIN rs :
                       \E b \in DOMAIN by_day : \E k \in DOMAIN by_day[b].hours :
                           by_day[b].hours[k] = ExpectedEntry(rs, i)

\* Two readings were normalized: one with a cost, one without, one of them
\* with a datapoint value that is no number and with a unit that comes second.
C16_Witness ==
    /\ Normalized_Only("A")
    /\ P_offset \in InRange(ReadingsOf("A"))
    /\ Len(ReadingsOf("A")) = 2
    /\ \E b \in DOMAIN Val(cyc.by_day) : \E k \in DOMAIN Val(cyc.by_day)[b].hours :
           LET e == Val(cyc.by_day)[b].hours[k]
           IN  IsNone(e.cost) /\ e.unit = kWh
    /\ \E b \in DOMAIN Val(cyc.by_day) : \E k \in DOMAIN Val(cyc.by_day)[b].hours :
           LET e == Val(cyc.by_day)[b].hours[k]
           IN  e.start = P_offset.start /\ e.unit = kWh /\ e.usage = Some(3)

\* The hours of yesterday's bucket of a by_day, none when it has no such bucket.
YesterdayBucket(by_day) ==
    LET at == {b \in DOMAIN by_day : by_day[b].day = [kind |-> "date", date |-> yesterday_date]}
    IN  IF at = {} THEN <<>> ELSE by_day[CHOOSE b \in at : TRUE].hours

\* C17: a record with a start timestamp sits in the bucket of the date written
\* in that timestamp, whatever its hour and offset; yesterday_hours is
\* yesterday's bucket; yesterday's usage total adds its records, and the
\* reported cost adds the costs that are present (a total of zero is reported
\* as null).
C17_GroupedByWrittenDate ==
    \A m \in Meters :
        Normalized_Only(m) =>
            LET by_day == Val(cyc.by_day)
                hours == YesterdayBucket(by_day)
                priced == {i \in DOMAIN hours : ~IsNone(hours[i].cost)}
                usage == SumInt(DOMAIN hours, [i \in DOMAIN hours |-> Val(hours[i].usage)])
                cost == SumRat(priced, [i \in priced |-> Val(hours[i].cost)])
            IN  /\ \A b \in DOMAIN by_day : \A k \in DOMAIN by_day[b].hours :
                       LET start == by_day[b].hours[k].start
                       IN  start.kind = "datetime" =>
                               by_day[b].day = [kind |-> "date", date |-> start.date]
                /\ \A b, c \in DOMAIN by_day : by_day[b].day = by_day[c].day => b = c
                /\ cyc.hours = hours
                /\ usage # 0 => cyc.daily.usage = Some(usage)
                /\ ~IsNone(cyc.daily.usage) => cyc.daily.usage = Some(usage)
                /\ cost # RZero => cyc.daily.cost = Some(cost)
                /\ ~IsNone(cyc.daily.cost) => cyc.daily.cost = Some(cost)

\* A reading of yesterday 23:30 at an offset of -2 hours, whose hour is
\* today's in UTC, was grouped under yesterday, next to a reading of the day
\* before.
C17_Witness ==
    /\ Normalized_Only("A")
    /\ ReadingsOf("A") = <<P_offset, R_before>>
    /\ Len(Val(cyc.by_day)) = 2
    /\ Len(cyc.hours) = 1
    /\ cyc.hours[1].start = P_offset.start
    /\ cyc.daily.usage = Some(3)

\* The payload served for meter m holds no list under "intervals".
NoIntervalList(m) == feed[m].intervals.shape = "no_intervals"

\* C18: a payload without a list of intervals yields an empty record set, in
\* the refresh cycle and in the import service: no day bucket, no point
\* written to the store, no yesterday hours, a null daily usage, and the
\* cycle goes on to the result of the meter.
C18_NoIntervalListIsEmpty ==
    \A m \in Meters :
        NoIntervalList(m) =>
            /\ stats[m] = EmptyStats
            /\ cyc.status \in {"none", "running", "ok"}
            /\ Normalizing(m) =>
                   /\ cyc.by_day = Some(<<>>)
                   /\ cyc.hours = <<>>
                   /\ IsNone(cyc.daily.usage)
                   /\ cyc.written = <<>>
                   /\ wr["cycle"].pc = "idle"
            /\ Passed(m) => HasResult(m)
            /\ \A i \in DOMAIN cyc.results :
                   cyc.results[i].meter = m =>
                       /\ cyc.results[i].yesterday_hours = <<>>
                       /\ IsNone(cyc.results[i].daily.usage)
            /\ (lastCall.made /\ lastCall.meter = m) =>
                   /\ lastCall.hours = <<>>
                   /\ wr["direct"].usage_written = <<>>
                   /\ wr["direct"].cost_written = <<>>
                   /\ wr["direct"].pc # "raised"

\* The cycle completed and an import day returned for a meter whose payload
\* holds a reading outside any list of intervals.
C18_Witness ==
    /\ NoIntervalList("A")
    /\ feed["A"].intervals.readings # <<>>
    /\ cyc.status = "ok"
    /\ HasResult("A")
    /\ lastCall.made /\ lastCall.meter = "A"
    /\ wr["direct"].pc = "done"

\* C19: no refresh cycle ends with an exception raised on the shape of an
\* interval or bill payload; a meter served a malformed payload has its
\* result entry once its iteration is over.
C19_ShapeMismatchNeverRaises ==
    /\ cyc.status # "error"
    /\ cyc.cause \notin {"intervals_shape", "bills_shape"}
    /\ \A m \in Meters :
           (feed[m].intervals.shape # "ok" /\ Passed(m)) => HasResult(m)

\* C20: when yesterday has a reading, the daily usage the normalizer reports
\* is a number, and when yesterday has a reading with a cost, the daily cost
\* it reports is a number, zero included; null means that there is no data.
C20_NullMeansNoData ==
    \A m \in Meters :
        Normalized_Only(m) =>
            LET hours == Normalized(m).hours
            IN  /\ hours # <<>> => ~IsNone(cyc.daily.usage)
                /\ (\E i \in DOMAIN hours : ~IsNone(hours[i].cost)) =>
                       ~IsNone(cyc.daily.cost)

\* ------------------------------------------------------------------ claims: the bulk import

\* C21: the import fetches no bill, and every record it writes carries the
\* cost present in the provider's reading (the sum of the datapoint and reading
\* costs), or no cost when the reading has none; for an hour whose reading has
\* a cost, a cost point is written.
C21_ImportKeepsReportedCost ==
    \A k \in DOMAIN imp.wrote :
        LET rs == payload_readings(imp.served[k])
            w == imp.wrote[k]
        IN  /\ Len(w.hours) = Len(rs)
            /\ \A i \in DOMAIN rs :
                   /\ w.hours[i].cost = reading_cost(rs[i])
                   /\ (recorder_ok /\ ~IsNone(reading_cost(rs[i]))) =>
                          \E r \in DOMAIN w.cost_written :
                              w.cost_written[r].start = SortKey(w.hours[i])

ImportRunning == imp.pc \in {"fetch", "write"}
ImportEnded == imp.pc \in {"done", "error"}
\* The days of [start, end), and the state of the walk over them.
ImportWalk ==
    LET s == Val(imp.start)
        e == Val(imp.end)
        days == IF s < e THEN e - s ELSE 0
    IN  /\ \A k \in DOMAIN imp.fetched : imp.fetched[k] = s + k - 1 /\ imp.fetched[k] < e
        /\ Len(imp.served) <= Len(imp.fetched)
        /\ nWrites <= Len(imp.served)
        /\ s >= e => imp.pc = "done" /\ imp.fetched = <<>> /\ nWrites = 0
        /\ imp.pc = "fetch" =>
               /\ Len(imp.fetched) = imp.day - s
               /\ Len(imp.wrote) = imp.day - s
               /\ nWrites = imp.day - s
        /\ imp.pc = "write" =>
               /\ Len(imp.fetched) = imp.day - s + 1
               /\ Len(imp.wrote) = imp.day - s
               /\ nWrites = imp.day - s + 1
               /\ lastCall.hours = import_hours(imp.served[Len(imp.served)])
        /\ imp.pc = "done" =>
               /\ Len(imp.fetched) = days
               /\ Len(imp.wrote) = days
               /\ nWrites = days
        /\ imp.pc = "error" =>
               /\ imp.cause \in {"fetch", "shape", "write"}
               /\ Len(imp.fetched) = imp.day - s + 1
               /\ Len(imp.wrote) = imp.day - s
               /\ nWrites = IF imp.cause = "write" THEN imp.day - s + 1 ELSE imp.day - s
        /\ wr["direct"].pc = "raised" => imp.pc \in {"write", "error"}
        /\ \A k \in DOMAIN imp.wrote :
               /\ imp.wrote[k].hours = import_hours(imp.served[k])
               /\ recorder_ok =>
                      \A r \in DOMAIN imp.wrote[k].usage_written :
                          imp.wrote[k].usage_written[r].start \in DOMAIN stats[imp.meter].usage
C22_Walk ==
    /\ (imp.pc = "error" /\ imp.cause = "format") =>
           imp.fetched = <<>> /\ nWrites = 0 /\ (IsNone(imp.start) \/ IsNone(imp.end))
    /\ (imp.pc # "idle" /\ imp.cause # "format") => ImportWalk

\* C22: an import over [start, end) ends; it fetches the days of the range in
\* ascending order, end excluded, each fetch followed by one write of the
\* writer before the next day is fetched; for start >= end it fetches and
\* writes nothing; a failed fetch or write ends it with an error, the points
\* of the days before are in the store and no later day is fetched.
C22_ImportWalksRangeAndEnds ==
    /\ []C22_Walk
    /\ ImportRunning ~> ImportEnded

\* The write of the second day of a range failed after the first day was
\* written.
C22_Witness ==
    /\ imp.pc = "error" /\ imp.cause = "write"
    /\ imp.fetched = <<0, 1>>
    /\ Len(imp.wrote) = 1
    /\ DOMAIN stats[imp.meter].usage # {}

\* C23: with the recorder functions missing, a write reads nothing, stores
\* nothing and raises nothing, whatever its hours; the refresh cycle goes
\* through every day bucket to the result of the meter, and the import through
\* every day of its range.
C23_NoRecorderWriteIsNoOp ==
    ~recorder_ok =>
        /\ stats = [m \in Meters |-> EmptyStats]
        /\ \A c \in Callers :
               /\ wr[c].pc \in {"idle", "done"}
               /\ wr[c].usage_written = <<>> /\ wr[c].cost_written = <<>>
               /\ wr[c].last_usage = 0 /\ wr[c].last_cost = RZero
        /\ cyc.status \in {"none", "running", "ok"}
        /\ (cyc.pc = "assemble" \/ cyc.status = "ok") =>
               Len(cyc.written) = Len(Val(cyc.by_day))
        /\ cyc.status = "ok" => HasResult("A")
        /\ imp.cause # "write"
        /\ (imp.pc = "error" /\ imp.cause # "format") => Len(imp.wrote) = Len(imp.fetched) - 1
        /\ imp.pc = "done" => Len(imp.wrote) = Len(imp.fetched)

\* Without the recorder, the cycle went through two day buckets and the import
\* through two days, one of them with a record without a start.
C23_Witness ==
    /\ ~recorder_ok
    /\ cyc.status = "ok"
    /\ Len(cyc.written) = 2
    /\ imp.pc = "done"
    /\ Len(imp.wrote) = 2
    /\ \E k \in DOMAIN imp.wrote : ParseRaises(imp.wrote[k].hours)

\* ------------------------------------------------------------------ claims: timestamps, stages, interleaving

\* C24: no write raises on a start value (the recorder never fails here), and
\* after a completed cycle every record of every day bucket whose start is a
\* timestamp has its usage point in the store, whatever the start of the other
\* records of the payload.
C24_BadStartDoesNotAbortWrites ==
    /\ \A c \in Callers : wr[c].pc # "raised"
    /\ \A m \in Meters :
           (Normalizing(m) /\ cyc.status = "ok") =>
               \A b \in DOMAIN Val(cyc.by_day) : \A k \in DOMAIN Val(cyc.by_day)[b].hours :
                   LET at == parse_hour_start(Val(cyc.by_day)[b].hours[k].start)
                   IN  ~IsNone(at) => Val(at) \in DOMAIN stats[m].usage

Stages ==
    <<"FETCH_SUMMARY", "FETCH_INTERVALS", "NORMALIZE", "ESTIMATE_COST", "PERSIST_STATS",
      "ASSEMBLE_RESULT">>
StageRank(stage) == CHOOSE k \in DOMAIN Stages : Stages[k] = stage
StageRan(m, stage) == \E i \in DOMAIN cyc.trace : cyc.trace[i] = <<m, stage>>

\* C25: in the trace of a cycle, the entries of a meter earlier in the list
\* come before those of a later one, the stages of one meter come in the order
\* FETCH_SUMMARY, FETCH_INTERVALS, NORMALIZE, ESTIMATE_COST, PERSIST_STATS,
\* ASSEMBLE_RESULT, each at most once; a meter begins with FETCH_SUMMARY, right
\* after ASSEMBLE_RESULT of the meter before it; NORMALIZE follows
\* FETCH_INTERVALS at once; and an assembled meter went through FETCH_SUMMARY,
\* FETCH_INTERVALS and PERSIST_STATS.
C25_StagesInOrder ==
    LET t == cyc.trace
    IN  /\ \A i, j \in DOMAIN t :
               i < j =>
                   \/ IndexIn(cyc.list, t[i][1]) < IndexIn(cyc.list, t[j][1])
                   \/ t[i][1] = t[j][1] /\ StageRank(t[i][2]) < StageRank(t[j][2])
        /\ t # <<>> => t[1] = <<cyc.list[1], "FETCH_SUMMARY">>
        /\ \A j \in DOMAIN t :
               (j > 1 /\ t[j][1] # t[j - 1][1]) =>
                   /\ t[j - 1][2] = "ASSEMBLE_RESULT"
                   /\ t[j][2] = "FETCH_SUMMARY"
                   /\ IndexIn(cyc.list, t[j][1]) = IndexIn(cyc.list, t[j - 1][1]) + 1
        /\ \A j \in DOMAIN t :
               t[j][2] = "NORMALIZE" => j > 1 /\ t[j - 1] = <<t[j][1], "FETCH_INTERVALS">>
        /\ \A m \in Meters :
               StageRan(m, "ASSEMBLE_RESULT") =>
                   /\ StageRan(m, "FETCH_SUMMARY")
                   /\ StageRan(m, "FETCH_INTERVALS")
                   /\ StageRan(m, "PERSIST_STATS")
        /\ \A m \in Meters : HasResult(m) <=> StageRan(m, "ASSEMBLE_RESULT")

\* A completed cycle over two meters, the first without the bill stage, the
\* second with it.
C25_Witness ==
    /\ cyc.status = "ok"
    /\ Len(cyc.list) = 2
    /\ ~StageRan(cyc.list[1], "ESTIMATE_COST")
    /\ StageRan(cyc.list[1], "NORMALIZE")
    /\ StageRan(cyc.list[2], "ESTIMATE_COST")
    /\ StageRan(cyc.list[2], "ASSEMBLE_RESULT")

\* C28: every write of a cycle is for a meter whose interval fetch came back
\* in that cycle, and its hours are a day bucket of that meter's payload; in
\* the first cycle, a meter whose interval fetch failed has no point in the
\* store.
C28_WritesComeFromOwnPayload ==
    /\ (cyc.pc = "writing" /\ wr["cycle"].pc # "idle") =>
           LET w == wr["cycle"]
           IN  /\ HasInput(w.meter, "intervals", "ok")
               /\ \E b \in DOMAIN Normalized(w.meter).by_day :
                      [i \in DOMAIN w.hours |-> w.hours[i].start]
                          = [i \in DOMAIN Normalized(w.meter).by_day[b].hours |->
                                Normalized(w.meter).by_day[b].hours[i].start]
    /\ \A m \in Meters :
           (~prevCycle.made /\ HasInput(m, "intervals", "error")) => stats[m] = EmptyStats

\* The store of a meter after a write that nothing interleaves with.
WrittenAlone(st, hours) ==
    IF ParseRaises(hours) THEN st
    ELSE [usage |-> Upsert(st.usage, usage_rows(ordered(hours), last_usage_sum(st))),
          cost |-> Upsert(st.cost, cost_rows(ordered(hours), last_cost_sum(st)))]
RECURSIVE WrittenInTurn(_, _)
WrittenInTurn(st, batches) ==
    IF batches = <<>> THEN st
    ELSE WrittenInTurn(WrittenAlone(st, Head(batches)), Tail(batches))
\* The orders in which the writes of a and of b can follow one another, each
\* write whole, those of a and those of b in their own order.
RECURSIVE SerialOrders(_, _)
SerialOrders(a, b) ==
    IF a = <<>> THEN {b}
    ELSE IF b = <<>> THEN {a}
    ELSE {<<Head(a)>> \o o : o \in SerialOrders(Tail(a), b)}
         \cup {<<Head(b)>> \o o : o \in SerialOrders(a, Tail(b))}
CycleBatches == [k \in DOMAIN cyc.written |-> cyc.written[k].hours]
ImportBatches == [k \in DOMAIN imp.wrote |-> imp.wrote[k].hours]

\* C29: when a cycle and an import have both written all their batches for
\* the same meter, with no failure, the stored series is the one that some
\* serial order of these writes leaves, each write reading the last sums and
\* storing its rows with no other write in between.
C29_InterleavedWritesAreSerializable ==
    ( /\ recorder_ok /\ budget.failures = 0
      /\ cyc.status = "ok" /\ Len(cyc.written) = Len(Val(cyc.by_day))
      /\ imp.pc = "done" /\ imp.meter = cyc.list[1] )
        => stats[imp.meter] \in
               {WrittenInTurn(EmptyStats, o) : o \in SerialOrders(CycleBatches, ImportBatches)}

\* ------------------------------------------------------------------ claims: the network client

\* The callers that hold a permit, and those inside the request section.
Holders == {c \in ApiCallers : client.calls[c].pc \in {"admitted", "first", "second"}}
InRequest == {c \in ApiCallers : client.calls[c].pc \in {"first", "second"}}
Waiting(c) == client.calls[c].pc = "waiting"
GateKept ==
    /\ Cardinality(InRequest) <= Permits
    /\ Cardinality(Holders) <= Permits
    /\ client.sem = Permits - Cardinality(Holders)
    /\ InRange(client.waiters) = {c \in ApiCallers : Waiting(c)}
    /\ Len(client.waiters) = Cardinality(InRange(client.waiters))
    /\ client.waiters # <<>> => client.sem = 0

\* C26: at most 5 calls of _get are inside the request section, the retry with
\* the alternate header included; the permits that are not held by a call are
\* in the semaphore, whichever way the calls before ended; and a caller that
\* waits for a permit gets to send its request.
C26_GateOfFive ==
    /\ []GateKept
    /\ \A c \in ApiCallers : Waiting(c) ~> (client.calls[c].pc = "first")

\* Five requests are in flight and a sixth caller waits, after a call that
\* ended with an error.
C26_Witness ==
    /\ Cardinality(InRequest) = Permits
    /\ client.waiters # <<>>
    /\ client.last.result = "UtilityAPIError"

\* C27: the auth mode is 'auto' and then, at most once, becomes 'bearer' or
\* 'x-api-key' for good; the first request of a call carries the header of the
\* mode (Bearer in 'auto'); a second request is sent only after a 401/403 in
\* 'auto', with X-Api-Key, and no third; a call that returns leaves the mode at
\* the header style of its last request; in a locked mode a 401/403 raises
\* InvalidAuthError after one request; a request answered with an error status
\* or not answered leaves the mode as it was.
C27_AuthModeLocksOnce ==
    /\ Len(client.modes) <= 2
    /\ client.modes[1] = "auto"
    /\ client.auth_mode = client.modes[Len(client.modes)]
    /\ client.auth_mode \in {"auto", "bearer", "x-api-key"}
    /\ \A c \in ApiCallers :
           LET call == client.calls[c]
           IN  /\ call.sent <= 2
               /\ call.pc = "first" =>
                      call.sent = 1 /\ call.style = header_style(client.auth_mode)
               /\ call.pc = "second" =>
                      call.sent = 2 /\ call.style = "x-api-key" /\ client.auth_mode = "auto"
    /\ LET last == client.last
       IN  /\ last.sent <= 2
           /\ last.sent = 2 => last.mode_before = "auto"
           /\ last.result = "ok" =>
                  /\ last.mode_after = last.style
                  /\ last.mode_before \in {"auto", last.mode_after}
           /\ last.answer \in {"unauthorized", "http_error", "network_error"} =>
                  last.mode_after = last.mode_before
           /\ last.result = "InvalidAuthError" =>
                  /\ last.answer = "unauthorized"
                  /\ last.sent = IF last.mode_before = "auto" THEN 2 ELSE 1

\* The mode was locked to X-Api-Key by a retry, and a later call was answered
\* 401/403 and raised after its one request.
C27_Witness ==
    /\ client.modes = <<"auto", "x-api-key">>
    /\ client.last.result = "InvalidAuthError"
    /\ client.last.sent = 1
    /\ client.last.style = "x-api-key"

====
